---- MODULE Spec2Model ----
(***************************************************************************)
(* A model of the agent package: run_workflow (agent/workflow.py), the     *)
(* build runner _run_cmd, the diagnostic extractor                         *)
(* _extract_missing_includes and EngineClient._run                         *)
(* (agent/engine_client.py).                                               *)
(*                                                                         *)
(* Text is modelled as a sequence of fragments.  A file's content is a     *)
(* sequence over ContentChars, where "\n" is the line terminator and every *)
(* other fragment is a piece of text without a line break; the build's     *)
(* stderr is a sequence of diagnostic lines.  A Python dict is a function  *)
(* whose DOMAIN is the dict's key set; a JSON scalar is a string.          *)
(***************************************************************************)
EXTENDS Naturals, Sequences, FiniteSets, TLC

VARIABLES
    now,            \* the wall clock, int(time.time() * 1000)
    run_id,         \* the run identifier, which names the run directory
    pc,             \* position of run_workflow
    calls,          \* external calls issued so far, in order
    artifacts,      \* files written under run_dir so far, in order
    build,          \* result of the first build
    needed_headers, \* the list built by the extractor and the content scan
    file_payload,   \* result of engine.read_file
    edits,          \* the edit set written to edits.json
    apply_res,      \* result of engine.apply_edits
    build2,         \* result of the second build
    verdict,        \* the dict run_workflow returns
    raised,         \* the exception that left run_workflow, if any
    eng_pc,         \* position of one EngineClient call taken alone
    eng_method,     \* the EngineClient method called
    eng_proc,       \* what subprocess.run returned for the engine
    eng_result,     \* what the method returned to its caller
    prev_runs,      \* run identifiers of the earlier invocations of this process
    fn_pc,          \* position of one call of a pure function taken alone
    fn_args,        \* the arguments of that call
    fn_result       \* what it returned

wfvars == <<now, run_id, pc, calls, artifacts, build, needed_headers, file_payload, edits,
            apply_res, build2, verdict, raised>>

engvars == <<eng_pc, eng_method, eng_proc, eng_result>>

fnvars == <<fn_pc, fn_args, fn_result>>

\* What a step of run_workflow leaves alone.
outervars == <<engvars, fnvars, prev_runs>>

vars == <<wfvars, outervars>>

\* Python's None, and a local that has not been assigned yet.
None == [py |-> "None"]

-----------------------------------------------------------------------------
(* Bounds *)

\* Longest target-file content, in fragments.
MaxContentLen == 3

\* Latest clock reading, in milliseconds after the process started.
MaxClock == 1

\* Invocations of run_workflow in one process.
MaxRuns == 2

\* Longest content the patch synthesizer is run on by itself, in fragments.
MaxPatchLen == 3

\* Longest build output the extractor is run on by itself, in lines.
MaxErrLines == 2

-----------------------------------------------------------------------------
(* Text *)

NL == "\n"
CR == "\r"
IncChrono == "#include <chrono>"
IncThread == "#include <thread>"
UseChrono == "std::chrono::"
UseThread == "std::this_thread::"
Code == "int x;"

ContentChars == {NL, IncChrono, IncThread, UseChrono, UseThread, Code}

Contents == UNION {[1..n -> ContentChars] : n \in 0..MaxContentLen}

\* `needle in content`
Contains(content, needle) == \E i \in 1..Len(content) : content[i] = needle

\* f"#include <{h}>"
IncludeOf(h) == IF h = "chrono" THEN IncChrono ELSE IncThread

\* content.endswith("\n")
EndsWithNL(content) == Len(content) > 0 /\ content[Len(content)] = NL

\* line.startswith("#include")
StartsWithInclude(line) == Len(line) > 0 /\ line[1] \in {IncChrono, IncThread}

\* content.splitlines(): a line ends at each "\n", "\r" or "\r\n" (the pair
\* is one terminator); a last line without a terminator is kept when it is
\* not empty.
RECURSIVE SplitFrom(_, _, _)
SplitFrom(content, i, cur) ==
    IF i > Len(content)
    THEN IF cur = <<>> THEN <<>> ELSE <<cur>>
    ELSE IF content[i] = CR /\ i < Len(content) /\ content[i + 1] = NL
         THEN <<cur>> \o SplitFrom(content, i + 2, <<>>)
    ELSE IF content[i] \in {NL, CR}
         THEN <<cur>> \o SplitFrom(content, i + 1, <<>>)
         ELSE SplitFrom(content, i + 1, Append(cur, content[i]))

SplitLines(content) == SplitFrom(content, 1, <<>>)

\* "\n".join(lines)
RECURSIVE Join(_)
Join(lines) ==
    IF lines = <<>> THEN <<>>
    ELSE IF Len(lines) = 1 THEN lines[1]
    ELSE lines[1] \o <<NL>> \o Join(Tail(lines))

-----------------------------------------------------------------------------
(* Build runner and diagnostic extractor *)

E_linker == "undefined reference to `helper()'"
E_chrono_clang == "error: no member named 'chrono' in namespace 'std'"
E_chrono_gcc == "error: 'chrono' is not a member of 'std'"
E_thread_clang == "error: no member named 'this_thread' in namespace 'std'"
E_thread_gcc == "error: 'this_thread' is not a member of 'std'"
E_ns_thread == "error: no member named 'sleep_for' in namespace 'std::this_thread'"

\* The same diagnostics as GCC prints them in a UTF-8 locale; the quotation
\* marks U+2018 and U+2019 are written \u2018 and \u2019.
E_ns_thread_curly ==
    "error: \\u2018sleep_for\\u2019 is not a member of namespace \\u2018std::this_thread\\u2019"
E_chrono_gcc_curly == "error: \\u2018chrono\\u2019 is not a member of \\u2018std\\u2019"

\* The diagnostic lines each regular expression of the extractor matches.
ReChronoNs == {E_chrono_clang}
ReChronoGcc == {E_chrono_gcc}
ReThreadNs == {E_thread_clang}
ReThreadGcc == {E_thread_gcc}
ReNsThisThread == {E_ns_thread}
ReNsThisThreadCurly == {E_ns_thread_curly}

\* re.search(pattern, build_stderr)
ReSearch(matching, text) == \E i \in 1..Len(text) : text[i] \in matching

\* add that appends whether or not the header is there.
add_NoDedup(need, header) == Append(need, header)

\* The nested add(header): append unless already there.
add(need, header) ==
    IF \E i \in 1..Len(need) : need[i] = header THEN need ELSE Append(need, header)

_extract_missing_includes(build_stderr) ==
    LET n1 == IF ReSearch(ReChronoNs, build_stderr) \/ ReSearch(ReChronoGcc, build_stderr)
              THEN add(<<>>, "chrono") ELSE <<>>
        n2 == IF ReSearch(ReThreadNs, build_stderr) \/ ReSearch(ReThreadGcc, build_stderr)
              THEN add(n1, "thread") ELSE n1
        n3 == IF ReSearch(ReNsThisThread, build_stderr)
                 \/ ReSearch(ReNsThisThreadCurly, build_stderr)
              THEN add(n2, "thread") ELSE n2
    IN  n3

\* The stderr texts the build of the workspace is run with.
BuildStderrs ==
    { <<>>,
      <<E_linker>>,
      <<E_chrono_clang>>,
      <<E_chrono_gcc>>,
      <<E_thread_gcc>>,
      <<E_ns_thread>>,
      <<E_thread_clang, E_chrono_gcc>>,
      <<E_linker, E_chrono_clang, E_ns_thread>> }

ExitCodes == {0, 1}

\* What subprocess.run gives _run_cmd: a finished process, or TimeoutExpired.
BuildOutcomes ==
    [code : ExitCodes, stderr : BuildStderrs] \cup {[raise |-> "TimeoutExpired"]}

Raises(r) == "raise" \in DOMAIN r

-----------------------------------------------------------------------------
(* EngineClient *)

\* JSON scalars are strings: "true" and "false" are the JSON booleans, "1" a
\* JSON number.  NoneS is what dict.get gives for a missing key.
NoneS == "None"

Get(d, k) == IF k \in DOMAIN d THEN d[k] ELSE NoneS

\* Python truthiness of a JSON scalar or None.
Truthy(v) == v \in {"true", "1"}

\* json.loads may give a value that is no dict.
NotDict == [py |-> "list"]
IsDict(r) == "py" \notin DOMAIN r

\* What the engine process printed: nothing, white space, text that is no
\* JSON, a JSON array, or a JSON object (with its payload).
TextStdouts ==
    { [kind |-> "empty", text |-> ""],
      [kind |-> "space", text |-> " \n"],
      [kind |-> "garbage", text |-> "Segmentation fault"],
      [kind |-> "array", text |-> "[]"] }

ObjectStdouts(payloads) == {[kind |-> "object", payload |-> p] : p \in payloads}

ReturnCodes == {0, 1}

Procs(stdouts) == [returncode : ReturnCodes, stdout : stdouts]

\* proc.stdout.strip()
StripIsEmpty(stdout) == stdout.kind \in {"empty", "space"}

\* json.loads(proc.stdout)
JsonLoads(stdout) ==
    CASE stdout.kind \in {"empty", "space", "garbage"} -> [raise |-> "JSONDecodeError"]
      [] stdout.kind = "array" -> NotDict
      [] OTHER -> stdout.payload

\* payload["ok"] = False; payload["error"] = payload.get("error", "engine_nonzero_exit")
Normalized(payload) ==
    [k \in DOMAIN payload \cup {"ok", "error"} |->
        IF k = "ok" THEN "false"
        ELSE IF k = "error"
             THEN IF "error" \in DOMAIN payload THEN payload["error"]
                  ELSE "engine_nonzero_exit"
             ELSE payload[k]]

\* EngineClient._run, given what subprocess.run returned for the engine.
_run(args, proc) ==
    IF proc.returncode # 0 /\ StripIsEmpty(proc.stdout)
    THEN [ok |-> "false", error |-> "engine_failed", stderr |-> "", args |-> args]
    ELSE LET payload == JsonLoads(proc.stdout) IN
         IF Raises(payload)
         THEN [ok |-> "false", error |-> "engine_invalid_json",
               stdout |-> proc.stdout.text, stderr |-> "", args |-> args]
         ELSE IF proc.returncode # 0
              THEN IF ~IsDict(payload) THEN [raise |-> "AttributeError"]
                   ELSE IF Get(payload, "ok") = "true" THEN Normalized(payload)
                   ELSE payload
              ELSE payload

\* The responses of the engine's subcommands used by the workflow.
SearchPayloads ==
    { [ok |-> "true", matches |-> "[]"],
      [ok |-> "false", error |-> "bad_root"] }

ReadPayloads ==
    {[ok |-> o, content |-> c] : o \in {"true", "1"}, c \in Contents}
    \cup { [ok |-> "true"],
           [ok |-> "false", error |-> "not_found"],
           [ok |-> "false"],
           [error |-> "not_found"] }

ApplyPayloads ==
    { [ok |-> "true", snapshot_id |-> "snap1"],
      [ok |-> "true"],
      [ok |-> "1", snapshot_id |-> "snap1"],
      [ok |-> "false", error |-> "bad_range"],
      [ok |-> "false"],
      [snapshot_id |-> "snap1"] }

list_files(proc) == _run("list-files", proc)
read_file(proc) == _run("read-file", proc)
search_text(proc) == _run("search-text", proc)
apply_edits(proc) == _run("apply-edits", proc)
rollback(proc) == _run("rollback", proc)

Methods == {"list_files", "read_file", "search_text", "apply_edits", "rollback"}

CallMethod(method, proc) ==
    CASE method = "list_files" -> list_files(proc)
      [] method = "read_file" -> read_file(proc)
      [] method = "search_text" -> search_text(proc)
      [] method = "apply_edits" -> apply_edits(proc)
      [] OTHER -> rollback(proc)

\* Every JSON object with an optional "ok", "error" and "snapshot_id".
EnginePayloads ==
    { ok @@ err @@ snap :
        ok \in {<<>>} \cup {[ok |-> o] : o \in {"true", "false", "1"}},
        err \in {<<>>, [error |-> "bad_request"]},
        snap \in {<<>>, [snapshot_id |-> "snap1"]} }

EngineProcs == Procs(TextStdouts \cup ObjectStdouts(EnginePayloads))

-----------------------------------------------------------------------------
(* Patch synthesizer: lines 145-178 of run_workflow *)

\* ScanContent that adds thread whenever its #include is absent, without
\* looking for a std::this_thread:: usage.
ScanContent_NoUsageCheck(need, content) ==
    LET n1 == IF Contains(content, UseChrono) /\ ~Contains(content, IncChrono)
                 /\ ~(\E i \in 1..Len(need) : need[i] = "chrono")
              THEN Append(need, "chrono") ELSE need
        n2 == IF ~Contains(content, IncThread)
                 /\ ~(\E i \in 1..Len(n1) : n1[i] = "thread")
              THEN Append(n1, "thread") ELSE n1
    IN  n2

\* ScanContent that appends without the `not in need` tests.
ScanContent_NoDedup(need, content) ==
    LET n1 == IF Contains(content, UseChrono) /\ ~Contains(content, IncChrono)
              THEN Append(need, "chrono") ELSE need
        n2 == IF Contains(content, UseThread) /\ ~Contains(content, IncThread)
              THEN Append(n1, "thread") ELSE n1
    IN  n2

\* Lines 148-151: the secondary scan of the content for bare usages.
ScanContent(need, content) ==
    LET n1 == IF Contains(content, UseChrono) /\ ~Contains(content, IncChrono)
                 /\ ~(\E i \in 1..Len(need) : need[i] = "chrono")
              THEN Append(need, "chrono") ELSE need
        n2 == IF Contains(content, UseThread) /\ ~Contains(content, IncThread)
                 /\ ~(\E i \in 1..Len(n1) : n1[i] = "thread")
              THEN Append(n1, "thread") ELSE n1
    IN  n2

\* FilterPresent that drops nothing.
FilterPresent_KeepAll(need, content) == need

\* Line 153: drop the headers whose #include is already in the content.
FilterPresent(need, content) ==
    SelectSeq(need, LAMBDA h : ~Contains(content, IncludeOf(h)))

MergeHeaders(need, content) == FilterPresent(ScanContent(need, content), content)

\* Lines 159-162: one past the last line that starts with #include, else 0.
RECURSIVE InsertAtFrom(_, _, _)
InsertAtFrom(lines, i, insert_at) ==
    IF i > Len(lines) THEN insert_at
    ELSE InsertAtFrom(lines, i + 1,
                      IF StartsWithInclude(lines[i]) THEN i ELSE insert_at)

InsertAt(lines) == InsertAtFrom(lines, 1, 0)

\* Lines 163-164.
NewLines(lines, need) ==
    SubSeq(lines, 1, InsertAt(lines))
        \o [i \in 1..Len(need) |-> <<IncludeOf(need[i])>>]
        \o SubSeq(lines, InsertAt(lines) + 1, Len(lines))

Replacement(content, need) ==
    Join(NewLines(SplitLines(content), need))
        \o (IF EndsWithNL(content) THEN <<NL>> ELSE <<>>)

\* Lines 167-176.
EditsFor(content, need) ==
    << [path |-> "main.cpp",
        start_line |-> 1,
        end_line |-> Len(SplitLines(content)),
        replacement |-> Replacement(content, need)] >>

-----------------------------------------------------------------------------
(* run_workflow *)

Init ==
    /\ now = 0
    /\ run_id = NoneS
    /\ pc = "start"
    /\ calls = <<>>
    /\ artifacts = <<>>
    /\ build = None
    /\ needed_headers = <<>>
    /\ file_payload = None
    /\ edits = <<>>
    /\ apply_res = None
    /\ build2 = None
    /\ verdict = None
    /\ raised = NoneS
    /\ eng_pc = "idle"
    /\ eng_method = NoneS
    /\ eng_proc = None
    /\ eng_result = None
    /\ prev_runs = <<>>
    /\ fn_pc = "idle"
    /\ fn_args = None
    /\ fn_result = None

\* Every dict run_workflow returns carries "run_id": run_id.
WithRunId(v) == [run_id |-> run_id] @@ v

\* return <dict>
Return(v) == pc' = "done" /\ verdict' = WithRunId(v) /\ raised' = raised

\* An exception leaves run_workflow: nothing is returned.
Raise(e) == pc' = "raised" /\ raised' = e /\ verdict' = verdict

\* Lines 113-120: the run directory, task.txt and plan.json.
Start ==
    /\ pc = "start"
    /\ run_id' = now
    /\ artifacts' = <<"task.txt", "plan.json">>
    /\ pc' = "build"
    /\ UNCHANGED <<now, calls, build, needed_headers, file_payload, edits, apply_res,
                   build2, verdict, raised>>
    /\ UNCHANGED outervars

\* AfterBuild0 without the early return of line 126.
AfterBuild0_NoEarlyReturn(out) ==
    pc' = "extract" /\ UNCHANGED <<verdict, raised>>

\* Lines 125-126.
AfterBuild0(out) ==
    IF out.code = 0
    THEN Return([ok |-> TRUE, message |-> "build already OK"])
    ELSE pc' = "extract" /\ UNCHANGED <<verdict, raised>>

\* Lines 122-126: the first build.
Build0 ==
    /\ pc = "build"
    /\ calls' = Append(calls, "build")
    /\ \E out \in BuildOutcomes :
          IF Raises(out)
          THEN /\ Raise(out.raise)
               /\ UNCHANGED <<artifacts, build>>
          ELSE /\ build' = out
               /\ artifacts' = Append(artifacts, "build_0.json")
               /\ AfterBuild0(out)
    /\ UNCHANGED <<needed_headers, file_payload, edits, apply_res, build2>>
    /\ UNCHANGED outervars
    /\ UNCHANGED <<now, run_id>>

\* AfterExtract without the emptiness check of line 130.
AfterExtract_NoCheck(need) ==
    pc' = "retrieve" /\ UNCHANGED <<verdict, raised>>

\* Lines 130-131.
AfterExtract(need) ==
    IF need = <<>>
    THEN Return([ok |-> FALSE, error |-> "unsupported_build_error", build |-> build])
    ELSE pc' = "retrieve" /\ UNCHANGED <<verdict, raised>>

\* Lines 128-131: the extractor.
Extract ==
    /\ pc = "extract"
    /\ needed_headers' = _extract_missing_includes(build.stderr)
    /\ AfterExtract(needed_headers')
    /\ UNCHANGED <<calls, artifacts, build, file_payload, edits, apply_res, build2>>
    /\ UNCHANGED outervars
    /\ UNCHANGED <<now, run_id>>

\* Lines 133-137: the retrieval call; its result only goes to retrieve.json.
Retrieve ==
    /\ pc = "retrieve"
    /\ calls' = Append(calls, "search-text")
    /\ \E proc \in Procs(TextStdouts \cup ObjectStdouts(SearchPayloads)) :
          LET res == search_text(proc) IN
          IF Raises(res)
          THEN Raise(res.raise) /\ UNCHANGED artifacts
          ELSE /\ artifacts' = Append(artifacts, "retrieve.json")
               /\ pc' = "read"
               /\ UNCHANGED <<verdict, raised>>
    /\ UNCHANGED <<build, needed_headers, file_payload, edits, apply_res, build2>>
    /\ UNCHANGED outervars
    /\ UNCHANGED <<now, run_id>>

\* AfterRead that tests the error key where line 142 tests ok.
AfterRead_ChecksError(res) ==
    IF ~IsDict(res) THEN Raise("AttributeError")
    ELSE IF "error" \in DOMAIN res
    THEN Return([ok |-> FALSE, error |-> "read_file_failed", detail |-> res])
    ELSE IF "content" \notin DOMAIN res THEN Raise("KeyError")
    ELSE pc' = "merge" /\ UNCHANGED <<verdict, raised>>

\* Lines 142-145: .get on a value that is no dict and ["content"] on a dict
\* without that key raise.
AfterRead(res) ==
    IF ~IsDict(res) THEN Raise("AttributeError")
    ELSE IF ~Truthy(Get(res, "ok"))
    THEN Return([ok |-> FALSE, error |-> "read_file_failed", detail |-> res])
    ELSE IF "content" \notin DOMAIN res THEN Raise("KeyError")
    ELSE pc' = "merge" /\ UNCHANGED <<verdict, raised>>

\* Lines 139-145: read the target file.
ReadFile ==
    /\ pc = "read"
    /\ calls' = Append(calls, "read-file")
    /\ \E proc \in Procs(TextStdouts \cup ObjectStdouts(ReadPayloads)) :
          LET res == read_file(proc) IN
          IF Raises(res)
          THEN Raise(res.raise) /\ UNCHANGED file_payload
          ELSE file_payload' = res /\ AfterRead(res)
    /\ UNCHANGED <<artifacts, build, needed_headers, edits, apply_res, build2>>
    /\ UNCHANGED outervars
    /\ UNCHANGED <<now, run_id>>

\* Lines 154-155.
AfterMerge(need) ==
    IF need = <<>>
    THEN Return([ok |-> FALSE, error |-> "includes_already_present"])
    ELSE pc' = "patch" /\ UNCHANGED <<verdict, raised>>

\* Lines 146-155: merge with the content scan, drop what is already declared.
Merge ==
    /\ pc = "merge"
    /\ needed_headers' = MergeHeaders(needed_headers, file_payload.content)
    /\ AfterMerge(needed_headers')
    /\ UNCHANGED <<calls, artifacts, build, file_payload, edits, apply_res, build2>>
    /\ UNCHANGED outervars
    /\ UNCHANGED <<now, run_id>>

\* Patch that keeps the edit in memory and does not write edits.json.
Patch_NoWrite ==
    /\ pc = "patch"
    /\ edits' = EditsFor(file_payload.content, needed_headers)
    /\ pc' = "apply"
    /\ UNCHANGED <<calls, artifacts, build, needed_headers, file_payload, apply_res,
                   build2, verdict, raised>>
    /\ UNCHANGED outervars
    /\ UNCHANGED <<now, run_id>>

\* Lines 157-178: compute the whole-file edit and write edits.json.
Patch ==
    /\ pc = "patch"
    /\ edits' = EditsFor(file_payload.content, needed_headers)
    /\ artifacts' = Append(artifacts, "edits.json")
    /\ pc' = "apply"
    /\ UNCHANGED <<calls, build, needed_headers, file_payload, apply_res, build2,
                   verdict, raised>>
    /\ UNCHANGED outervars
    /\ UNCHANGED <<now, run_id>>

\* AfterApply that tries the apply again instead of returning apply_failed.
AfterApply_Retry(res) ==
    IF ~IsDict(res) THEN Raise("AttributeError")
    ELSE IF ~Truthy(Get(res, "ok"))
    THEN pc' = "apply" /\ UNCHANGED <<verdict, raised>>
    ELSE pc' = "rebuild" /\ UNCHANGED <<verdict, raised>>

\* AfterApply without the check of line 185.
AfterApply_Unchecked(res) ==
    IF ~IsDict(res) THEN Raise("AttributeError")
    ELSE pc' = "rebuild" /\ UNCHANGED <<verdict, raised>>

\* Lines 185-186.
AfterApply(res) ==
    IF ~IsDict(res) THEN Raise("AttributeError")
    ELSE IF ~Truthy(Get(res, "ok"))
    THEN Return([ok |-> FALSE, error |-> "apply_failed", detail |-> res])
    ELSE pc' = "rebuild" /\ UNCHANGED <<verdict, raised>>

\* Lines 180-186: apply the edits.
Apply ==
    /\ pc = "apply"
    /\ calls' = Append(calls, "apply-edits")
    /\ \E proc \in Procs(TextStdouts \cup ObjectStdouts(ApplyPayloads)) :
          LET res == apply_edits(proc) IN
          IF Raises(res)
          THEN Raise(res.raise) /\ UNCHANGED <<apply_res, artifacts>>
          ELSE /\ apply_res' = res
               /\ artifacts' = Append(artifacts, "apply.json")
               /\ AfterApply(res)
    /\ UNCHANGED <<build, needed_headers, file_payload, edits, build2>>
    /\ UNCHANGED outervars
    /\ UNCHANGED <<now, run_id>>

\* AfterBuild1 that attaches build where line 194 attaches build2.
AfterBuild1_FirstBuild(out) ==
    IF out.code # 0
    THEN Return([ok |-> FALSE, error |-> "still_failing", build |-> build])
    ELSE Return([ok |-> TRUE,
                 fixed |-> "missing_include",
                 added_includes |-> needed_headers,
                 snapshot_id |-> Get(apply_res, "snapshot_id")])

\* Lines 193-202.
AfterBuild1(out) ==
    IF out.code # 0
    THEN Return([ok |-> FALSE, error |-> "still_failing", build |-> out])
    ELSE Return([ok |-> TRUE,
                 fixed |-> "missing_include",
                 added_includes |-> needed_headers,
                 snapshot_id |-> Get(apply_res, "snapshot_id")])

\* Build1 that calls the engine's rollback when the second build fails.
Build1_RollsBack ==
    /\ pc = "rebuild"
    /\ \E out \in BuildOutcomes :
          IF Raises(out)
          THEN /\ calls' = Append(calls, "build")
               /\ Raise(out.raise)
               /\ UNCHANGED <<artifacts, build2>>
          ELSE /\ calls' = IF out.code # 0
                           THEN calls \o <<"build", "rollback">>
                           ELSE Append(calls, "build")
               /\ build2' = out
               /\ artifacts' = Append(artifacts, "build_1.json")
               /\ AfterBuild1(out)
    /\ UNCHANGED <<build, needed_headers, file_payload, edits, apply_res>>
    /\ UNCHANGED outervars
    /\ UNCHANGED <<now, run_id>>

\* Lines 188-202: the second build and the final verdict.
Build1 ==
    /\ pc = "rebuild"
    /\ calls' = Append(calls, "build")
    /\ \E out \in BuildOutcomes :
          IF Raises(out)
          THEN /\ Raise(out.raise)
               /\ UNCHANGED <<artifacts, build2>>
          ELSE /\ build2' = out
               /\ artifacts' = Append(artifacts, "build_1.json")
               /\ AfterBuild1(out)
    /\ UNCHANGED <<build, needed_headers, file_payload, edits, apply_res>>
    /\ UNCHANGED outervars
    /\ UNCHANGED <<now, run_id>>

Next ==
    \/ Start
    \/ Build0
    \/ Extract
    \/ Retrieve
    \/ ReadFile
    \/ Merge
    \/ Patch
    \/ Apply
    \/ Build1

Spec == Init /\ [][Next]_vars

-----------------------------------------------------------------------------
(* The command line: cli.py *)

\* Line 58 of main: 0 if result.get("ok") else 2.
main(result) == IF "ok" \in DOMAIN result /\ result.ok = TRUE THEN 0 ELSE 2

\* Lines 61-62: raise SystemExit(main()).  An exception that leaves
\* run_workflow is caught nowhere, and the interpreter exits with status 1.
ExitStatus == IF pc = "raised" THEN 1 ELSE main(verdict)

-----------------------------------------------------------------------------
(* Several invocations of run_workflow in one process *)

\* The clock advances.  run_workflow reads it only on line 113, so the time
\* that passes during a run is taken when the next run is about to start.
Tick ==
    /\ pc = "start"
    /\ now < MaxClock
    /\ now' = now + 1
    /\ UNCHANGED <<run_id, calls, artifacts, build, needed_headers, file_payload,
                   edits, apply_res, build2, verdict, raised>>
    /\ pc' = pc
    /\ UNCHANGED outervars

\* The caller invokes run_workflow again after the last run returned or
\* raised: the locals are fresh, logs_root keeps the earlier run directories.
Invoke ==
    /\ pc \in {"done", "raised"}
    /\ Len(prev_runs) + 1 < MaxRuns
    /\ prev_runs' = Append(prev_runs, run_id)
    /\ pc' = "start"
    /\ run_id' = NoneS
    /\ calls' = <<>>
    /\ artifacts' = <<>>
    /\ build' = None
    /\ needed_headers' = <<>>
    /\ file_payload' = None
    /\ edits' = <<>>
    /\ apply_res' = None
    /\ build2' = None
    /\ verdict' = None
    /\ raised' = NoneS
    /\ UNCHANGED <<now, engvars, fnvars>>

RunsNext ==
    \/ Next
    \/ Tick
    \/ Invoke

SpecRuns == Init /\ [][RunsNext]_vars

-----------------------------------------------------------------------------
(* The patch synthesizer by itself, on contents with any line terminator *)

PatchChars == {NL, CR, IncChrono, Code}

PatchContents == UNION {[1..n -> PatchChars] : n \in 0..MaxPatchLen}

\* The lists line 153 can leave: not empty, no header twice.
PatchNeeds == {<<"chrono">>, <<"thread">>, <<"chrono", "thread">>, <<"thread", "chrono">>}

\* Line 153 has dropped every header the content declares.
PatchArgs ==
    {a \in [content : PatchContents, need : PatchNeeds] :
        \A i \in 1..Len(a.need) : ~Contains(a.content, IncludeOf(a.need[i]))}

PatchInit ==
    /\ now = 0
    /\ run_id = NoneS
    /\ pc = "idle"
    /\ calls = <<>>
    /\ artifacts = <<>>
    /\ build = None
    /\ needed_headers = <<>>
    /\ file_payload = None
    /\ edits = <<>>
    /\ apply_res = None
    /\ build2 = None
    /\ verdict = None
    /\ raised = NoneS
    /\ eng_pc = "idle"
    /\ eng_method = NoneS
    /\ eng_proc = None
    /\ eng_result = None
    /\ prev_runs = <<>>
    /\ fn_pc = "patch"
    /\ fn_args \in PatchArgs
    /\ fn_result = None

\* Lines 158-164 on the drawn content and list.
PatchCall ==
    /\ fn_pc = "patch"
    /\ fn_result' = [lines |-> SplitLines(fn_args.content),
                     new_lines |-> NewLines(SplitLines(fn_args.content), fn_args.need),
                     replacement |-> Replacement(fn_args.content, fn_args.need)]
    /\ fn_pc' = "patched"
    /\ UNCHANGED <<fn_args, wfvars, engvars, prev_runs>>

PatchNext == PatchCall

SpecPatch == PatchInit /\ [][PatchNext]_vars

-----------------------------------------------------------------------------
(* The diagnostic extractor by itself, on every short build output *)

ErrLines ==
    {E_linker, E_chrono_clang, E_chrono_gcc, E_chrono_gcc_curly,
     E_thread_clang, E_thread_gcc, E_ns_thread, E_ns_thread_curly}

ErrTexts == UNION {[1..n -> ErrLines] : n \in 0..MaxErrLines}

ExtractInit ==
    /\ now = 0
    /\ run_id = NoneS
    /\ pc = "idle"
    /\ calls = <<>>
    /\ artifacts = <<>>
    /\ build = None
    /\ needed_headers = <<>>
    /\ file_payload = None
    /\ edits = <<>>
    /\ apply_res = None
    /\ build2 = None
    /\ verdict = None
    /\ raised = NoneS
    /\ eng_pc = "idle"
    /\ eng_method = NoneS
    /\ eng_proc = None
    /\ eng_result = None
    /\ prev_runs = <<>>
    /\ fn_pc = "extract"
    /\ fn_args \in [build_stderr : ErrTexts]
    /\ fn_result = None

ExtractCall ==
    /\ fn_pc = "extract"
    /\ fn_result' = _extract_missing_includes(fn_args.build_stderr)
    /\ fn_pc' = "extracted"
    /\ UNCHANGED <<fn_args, wfvars, engvars, prev_runs>>

ExtractNext == ExtractCall

SpecExtract == ExtractInit /\ [][ExtractNext]_vars

-----------------------------------------------------------------------------
(* One EngineClient call, for every method and every engine outcome *)

EngineInit ==
    /\ now = 0
    /\ run_id = NoneS
    /\ pc = "idle"
    /\ calls = <<>>
    /\ artifacts = <<>>
    /\ build = None
    /\ needed_headers = <<>>
    /\ file_payload = None
    /\ edits = <<>>
    /\ apply_res = None
    /\ build2 = None
    /\ verdict = None
    /\ raised = NoneS
    /\ eng_pc = "call"
    /\ eng_method \in Methods
    /\ eng_proc \in EngineProcs
    /\ eng_result = None
    /\ prev_runs = <<>>
    /\ fn_pc = "idle"
    /\ fn_args = None
    /\ fn_result = None

\* The method runs the engine and returns, or an exception leaves it.
EngineCall ==
    /\ eng_pc = "call"
    /\ LET res == CallMethod(eng_method, eng_proc) IN
       IF Raises(res)
       THEN eng_pc' = "raised" /\ eng_result' = eng_result
       ELSE eng_pc' = "returned" /\ eng_result' = res
    /\ UNCHANGED <<eng_method, eng_proc>>
    /\ UNCHANGED <<wfvars, fnvars, prev_runs>>

EngineNext == EngineCall

SpecEngine == EngineInit /\ [][EngineNext]_vars

-----------------------------------------------------------------------------
(* Properties of run_workflow *)

IsPrefix(s, t) == Len(s) <= Len(t) /\ \A i \in 1..Len(s) : s[i] = t[i]

\* The external calls of a complete run, in order.
CallOrder == <<"build", "search-text", "read-file", "apply-edits", "build">>

\* The artifacts of a run that stops after its first build.
FirstBuildArtifacts == <<"task.txt", "plan.json", "build_0.json">>

\* A build has run and its result is in b.
Ran(b) == "code" \in DOMAIN b

\* C1: at every point of every run the external calls issued so far are a
\* prefix of build, search-text, read-file, apply-edits, build: no call is
\* repeated or reordered, the build runs at most twice and the edits are
\* applied at most once.
C1_CallsArePrefix == IsPrefix(calls, CallOrder)

\* A run that issued all five calls and returned.
C1_Witness == pc = "done" /\ calls = CallOrder

\* C2: when the first build exits 0 the run has returned the success verdict
\* "build already OK", the build is the only external call made, and nothing
\* was read, edited, applied or rebuilt: the artifacts are task, plan and
\* build_0 only.
C2_BuildAlreadyOk ==
    (Ran(build) /\ build.code = 0) =>
        /\ pc = "done"
        /\ verdict = WithRunId([ok |-> TRUE, message |-> "build already OK"])
        /\ calls = <<"build">>
        /\ artifacts = FirstBuildArtifacts
        /\ file_payload = None /\ edits = <<>> /\ apply_res = None /\ build2 = None

\* The first build exited 0 (with text on stderr) and the run returned.
C2_Witness ==
    /\ pc = "done"
    /\ Ran(build) /\ build.code = 0 /\ build.stderr = <<E_linker>>
    /\ Get(verdict, "message") = "build already OK"

\* No regular expression of the extractor matches a line of the text.
NoSignature(text) ==
    ~ \E i \in 1..Len(text) :
        text[i] \in ReChronoNs \cup ReChronoGcc \cup ReThreadNs \cup ReThreadGcc
                    \cup ReNsThisThread

\* C3: once the extractor has run on a failed first build whose stderr has no
\* recognized signature, the extracted list is empty and the run has returned
\* unsupported_build_error with the first build result attached; the build
\* is the only external call made and no artifact after build_0 is written.
C3_UnsupportedBuildError ==
    (Ran(build) /\ build.code # 0 /\ NoSignature(build.stderr) /\ pc # "extract") =>
        /\ pc = "done"
        /\ needed_headers = <<>>
        /\ verdict = WithRunId([ok |-> FALSE, error |-> "unsupported_build_error", build |-> build])
        /\ calls = <<"build">>
        /\ artifacts = FirstBuildArtifacts

\* The first build failed with a linker error and the run returned.
C3_Witness ==
    /\ pc = "done"
    /\ Ran(build) /\ build.code # 0 /\ build.stderr = <<E_linker>>
    /\ Get(verdict, "error") = "unsupported_build_error"

\* C4: when apply-edits returned a dict whose ok is not truthy, the run has
\* returned apply_failed with that dict as detail, apply.json is the last
\* artifact written, and no second build and no second apply was issued.
C4_ApplyFailed ==
    (IsDict(apply_res) /\ ~Truthy(Get(apply_res, "ok"))) =>
        /\ pc = "done"
        /\ verdict = WithRunId([ok |-> FALSE, error |-> "apply_failed", detail |-> apply_res])
        /\ artifacts[Len(artifacts)] = "apply.json"
        /\ build2 = None
        /\ calls = SubSeq(CallOrder, 1, 4)

\* The engine rejected the edit and the run returned.
C4_Witness ==
    /\ pc = "done"
    /\ IsDict(apply_res) /\ Get(apply_res, "error") = "bad_range"
    /\ Get(verdict, "error") = "apply_failed"

\* C5: when the second build exits non-zero, the run has returned
\* still_failing and the build result attached is the second build's.
C5_StillFailing ==
    (Ran(build2) /\ build2.code # 0) =>
        /\ pc = "done"
        /\ verdict = WithRunId([ok |-> FALSE, error |-> "still_failing", build |-> build2])

\* The second build failed with another stderr than the first.
C5_Witness ==
    /\ pc = "done"
    /\ Ran(build2) /\ build2.code # 0 /\ build2 # build
    /\ Get(verdict, "error") = "still_failing"

\* Some diagnostic line matches a rule for the dependency.
MatchesChrono(text) == ReSearch(ReChronoNs \cup ReChronoGcc, text)
MatchesThread(text) ==
    ReSearch(ReThreadNs \cup ReThreadGcc \cup ReNsThisThread \cup ReNsThisThreadCurly, text)

\* The read succeeded and lines 146-155 have run on its content.
Merged ==
    /\ IsDict(file_payload) /\ Truthy(Get(file_payload, "ok"))
    /\ "content" \in DOMAIN file_payload
    /\ pc # "merge"

AlreadyPresent == WithRunId([ok |-> FALSE, error |-> "includes_already_present"])

\* C6 as stated, read with the diagnostics matching thread alone: whenever
\* the first build's diagnostics match thread and the content read contains
\* #include <thread>, the run returns includes_already_present.
C6_Original ==
    (/\ Merged
     /\ MatchesThread(build.stderr) /\ ~MatchesChrono(build.stderr)
     /\ Contains(file_payload.content, IncThread)) =>
        (pc = "done" /\ verdict = AlreadyPresent)

\* chrono is missing too: a diagnostic matches it or the content uses
\* std::chrono::, and the content has no #include <chrono>.
ChronoMissing ==
    /\ MatchesChrono(build.stderr) \/ Contains(file_payload.content, UseChrono)
    /\ ~Contains(file_payload.content, IncChrono)

\* C6, amended: whenever the first build's diagnostics match thread, the
\* content read contains #include <thread> and chrono is not missing too,
\* the run returns includes_already_present.
C6_AlreadyPresent ==
    (/\ Merged
     /\ MatchesThread(build.stderr)
     /\ Contains(file_payload.content, IncThread)
     /\ ~ChronoMissing) =>
        (pc = "done" /\ verdict = AlreadyPresent)

\* thread was diagnosed, the file declares it, and the run returned.
C6_Witness ==
    /\ pc = "done" /\ Merged
    /\ MatchesThread(build.stderr)
    /\ Contains(file_payload.content, IncThread)
    /\ verdict = AlreadyPresent

\* The success verdict of lines 196-202 for the given added headers.
Fixed(added) ==
    WithRunId([ok |-> TRUE, fixed |-> "missing_include", added_includes |-> added,
               snapshot_id |-> Get(apply_res, "snapshot_id")])

\* C7 as stated: whenever the diagnostics match chrono alone, the content
\* read has no #include <chrono>, the apply succeeded and the second build
\* exited 0, the run returns success with exactly chrono added and the
\* snapshot identifier of the apply result.
C7_Original ==
    (/\ pc = "done" /\ Ran(build2) /\ build2.code = 0
     /\ MatchesChrono(build.stderr) /\ ~MatchesThread(build.stderr)
     /\ ~Contains(file_payload.content, IncChrono)) =>
        verdict = Fixed(<<"chrono">>)

\* thread is missing in the content: used, and not declared.
ThreadMissingInContent ==
    /\ Contains(file_payload.content, UseThread)
    /\ ~Contains(file_payload.content, IncThread)

\* C7, amended: the same, for every content that does not also use
\* std::this_thread:: without an #include <thread>.
C7_ChronoAdded ==
    (/\ pc = "done" /\ Ran(build2) /\ build2.code = 0
     /\ MatchesChrono(build.stderr) /\ ~MatchesThread(build.stderr)
     /\ ~Contains(file_payload.content, IncChrono)
     /\ ~ThreadMissingInContent) =>
        verdict = Fixed(<<"chrono">>)

\* chrono alone was diagnosed and added, with the snapshot of the apply.
C7_Witness ==
    /\ pc = "done" /\ Ran(build2) /\ build2.code = 0
    /\ MatchesChrono(build.stderr) /\ ~MatchesThread(build.stderr)
    /\ file_payload.content = <<IncThread, NL, UseChrono>>
    /\ Get(verdict, "snapshot_id") = "snap1"
    /\ verdict = Fixed(<<"chrono">>)

\* C8: when read-file returned a dict whose ok is not truthy, whatever its
\* error, the run has returned read_file_failed with that dict as detail;
\* no edits artifact is written, and no apply call and no second build is
\* issued.
C8_ReadFileFailed ==
    (IsDict(file_payload) /\ ~Truthy(Get(file_payload, "ok"))) =>
        /\ pc = "done"
        /\ verdict = WithRunId([ok |-> FALSE, error |-> "read_file_failed", detail |-> file_payload])
        /\ calls = SubSeq(CallOrder, 1, 3)
        /\ artifacts = Append(FirstBuildArtifacts, "retrieve.json")
        /\ edits = <<>> /\ apply_res = None /\ build2 = None

\* The engine printed no JSON for the read and the run returned.
C8_Witness ==
    /\ pc = "done"
    /\ IsDict(file_payload) /\ Get(file_payload, "error") = "engine_invalid_json"
    /\ Get(verdict, "error") = "read_file_failed"

\* C9: a run whose build timed out has ended by returning a failure verdict
\* whose error kind is the timeout.
C9_TimeoutReported ==
    (pc \in {"done", "raised"} /\ raised = "TimeoutExpired") =>
        /\ pc = "done"
        /\ "ok" \in DOMAIN verdict /\ verdict.ok = FALSE
        /\ "run_id" \in DOMAIN verdict
        /\ Get(verdict, "error") = "timeout"

-----------------------------------------------------------------------------
(* Properties of EngineClient *)

\* The engine printed a JSON object whose ok is true.
ReportsOkTrue(stdout) ==
    stdout.kind = "object" /\ Get(stdout.payload, "ok") = "true"

\* C10: a non-zero exit of the engine is never surfaced as success, also
\* when the engine's response reports success: whenever the engine exited
\* non-zero, the result returned to the caller is a dict whose ok is not
\* truthy, and it carries an error kind when the response reported ok true.
C10_NonzeroExitIsFailure ==
    (eng_pc = "returned" /\ eng_proc.returncode # 0) =>
        /\ IsDict(eng_result)
        /\ ~Truthy(Get(eng_result, "ok"))
        /\ (ReportsOkTrue(eng_proc.stdout) => "error" \in DOMAIN eng_result)

-----------------------------------------------------------------------------
(* Properties of several invocations *)

\* C11: the run identifier of a started invocation differs from the run
\* identifier of every earlier invocation of the process, so its artifacts
\* go to a directory no earlier run wrote into.
C11_RunIdsDistinct ==
    pc # "start" => \A i \in 1..Len(prev_runs) : prev_runs[i] # run_id

-----------------------------------------------------------------------------
(* Properties of the synthesized edit *)

\* C12: whatever run_workflow writes to edits.json and submits to apply-edits
\* is a single edit on the target file, from line 1 to the number of lines of
\* the content just read, and 1 <= start <= end <= line count, for every
\* content read, the empty file included.
C12_EditSpansFile ==
    edits # <<>> =>
        LET total == Len(SplitLines(file_payload.content)) IN
        /\ Len(edits) = 1
        /\ edits[1].path = "main.cpp"
        /\ edits[1].start_line = 1
        /\ edits[1].end_line = total
        /\ 1 <= edits[1].start_line
        /\ edits[1].start_line <= edits[1].end_line
        /\ edits[1].end_line <= total

\* Occurrences of a fragment in a text, of an element in a list.
Count(seq, x) == Cardinality({i \in 1..Len(seq) : seq[i] = x})

Headers == {"chrono", "thread"}

\* C13: the dependencies run_workflow inserts contain none whose #include
\* is already in the content read and none twice; the replacement text has
\* each declaration as often as the content has it, plus once for an
\* inserted dependency, so a declared dependency contributes no line.
C13_NoDuplicateDeclaration ==
    edits # <<>> =>
        LET content == file_payload.content
            replacement == edits[1].replacement
        IN  \A h \in Headers :
               /\ Count(needed_headers, h) <= 1
               /\ Contains(content, IncludeOf(h)) => Count(needed_headers, h) = 0
               /\ Count(replacement, IncludeOf(h))
                     = Count(content, IncludeOf(h)) + Count(needed_headers, h)

\* Both headers were diagnosed, thread is declared already: chrono alone is
\* inserted.
C13_Witness ==
    /\ edits # <<>>
    /\ _extract_missing_includes(build.stderr) = <<"chrono", "thread">>
    /\ file_payload.content = <<IncThread, NL, UseChrono>>
    /\ needed_headers = <<"chrono">>
    /\ edits[1].replacement = <<IncThread, NL, IncChrono, NL, UseChrono>>

\* Index of the last line that starts with #include, 0 when there is none.
LastInclude(lines) ==
    IF \E i \in 1..Len(lines) : StartsWithInclude(lines[i])
    THEN CHOOSE i \in 1..Len(lines) :
            /\ StartsWithInclude(lines[i])
            /\ \A j \in (i + 1)..Len(lines) : ~StartsWithInclude(lines[j])
    ELSE 0

-----------------------------------------------------------------------------
(* Properties of the diagnostic extractor *)

\* C15: _extract_missing_includes returns each dependency whose signature
\* occurs in the build output exactly once, however often and by however
\* many rules it is matched, returns no dependency whose signature does not
\* occur, and puts chrono before thread.
C15_ExtractOnce ==
    fn_pc = "extracted" =>
        LET text == fn_args.build_stderr IN
        /\ Count(fn_result, "chrono") = (IF MatchesChrono(text) THEN 1 ELSE 0)
        /\ Count(fn_result, "thread") = (IF MatchesThread(text) THEN 1 ELSE 0)
        /\ Len(fn_result) = Count(fn_result, "chrono") + Count(fn_result, "thread")
        /\ \A i, j \in 1..Len(fn_result) :
              fn_result[i] = "thread" /\ fn_result[j] = "chrono" => j < i

\* thread is matched twice, by two rule groups.
C15_Witness ==
    /\ fn_pc = "extracted"
    /\ fn_args.build_stderr = <<E_ns_thread, E_thread_gcc>>
    /\ fn_result = <<"thread">>

-----------------------------------------------------------------------------
(* Properties of the artifact trail *)

\* The artifacts of a complete run, in the order they are written.
ArtifactOrder ==
    <<"task.txt", "plan.json", "build_0.json", "retrieve.json", "edits.json",
      "apply.json", "build_1.json">>

Written(name) == \E i \in 1..Len(artifacts) : artifacts[i] = name

\* C16: at every point of a run, a terminal verdict and a raised exception
\* included, the artifacts present are a prefix of task, plan, build_0,
\* retrieve, edits, apply, build_1; and a stage's artifact is there before the
\* next external call: task and plan before the first build, build_0 before
\* any engine call, retrieve before read-file, edits before apply-edits,
\* apply before the second build.
C16_ArtifactsInOrder ==
    /\ IsPrefix(artifacts, ArtifactOrder)
    /\ Len(calls) >= 1 => Written("task.txt") /\ Written("plan.json")
    /\ Len(calls) >= 2 => Written("build_0.json")
    /\ Len(calls) >= 3 => Written("retrieve.json")
    /\ Len(calls) >= 4 => Written("edits.json")
    /\ Len(calls) >= 5 => Written("apply.json")

\* A run that crashes in the apply call leaves the trail up to edits.json.
C16_Witness ==
    /\ pc = "raised"
    /\ calls = SubSeq(CallOrder, 1, 4)
    /\ artifacts = SubSeq(ArtifactOrder, 1, 5)

-----------------------------------------------------------------------------
(* Properties of the verdicts *)

FailureKinds ==
    {"unsupported_build_error", "read_file_failed", "includes_already_present",
     "apply_failed", "still_failing"}

\* The result the verdict carries under its build or detail key, if any.
Carried(v) ==
    {v[k] : k \in DOMAIN v \cap {"build", "detail"}}

\* C17: every failure verdict run_workflow returns has one error kind, one
\* of the five terminal kinds, and carries the artifact that exposed the
\* failure: the first build result for unsupported_build_error, the read
\* result for read_file_failed and includes_already_present, the apply
\* result for apply_failed, the second build result for still_failing.
C17_FailureCarriesArtifact ==
    (pc = "done" /\ verdict.ok = FALSE) =>
        /\ Get(verdict, "error") \in FailureKinds
        /\ Carried(verdict) =
              CASE verdict.error = "unsupported_build_error" -> {build}
                [] verdict.error = "read_file_failed" -> {file_payload}
                [] verdict.error = "includes_already_present" -> {file_payload}
                [] verdict.error = "apply_failed" -> {apply_res}
                [] verdict.error = "still_failing" -> {build2}

\* The calls that change the workspace through the engine.
Mutating == {"apply-edits", "rollback"}

\* The verdicts of the paths that end before the apply call.
EndsBeforeApply ==
    \/ Get(verdict, "message") = "build already OK"
    \/ Get(verdict, "error") \in
          {"unsupported_build_error", "read_file_failed", "includes_already_present"}

\* C18: run_workflow never calls the engine's rollback.  A run that ends
\* with still_failing has applied the edits once and made no engine call
\* after that, so the target file stays as applied; a run that ends before
\* the apply call has made no call that changes the target file.
C18_NoRollback ==
    /\ Count(calls, "rollback") = 0
    /\ Count(calls, "apply-edits") <= 1
    /\ (pc = "done" /\ Get(verdict, "error") = "still_failing") =>
          /\ Truthy(Get(apply_res, "ok"))
          /\ calls = CallOrder
    /\ (pc = "done" /\ EndsBeforeApply) =>
          \A i \in 1..Len(calls) : calls[i] \notin Mutating
    /\ (pc = "raised" /\ edits = <<>>) =>
          \A i \in 1..Len(calls) : calls[i] \notin Mutating

\* The edits were applied, the second build failed, and the run returned.
C18_Witness ==
    /\ pc = "done"
    /\ Get(verdict, "error") = "still_failing"
    /\ Truthy(Get(apply_res, "ok"))
    /\ Ran(build2) /\ build2.code # 0
    /\ calls[Len(calls)] = "build"

-----------------------------------------------------------------------------
(* Classification of the engine's outcomes *)

\* json.loads accepts the text.
WellFormed(stdout) == stdout.kind \in {"array", "object"}

\* C19: every call ends with one result, classified by exit code and
\* stdout: engine_failed for a non-zero exit with empty or blank stdout;
\* engine_invalid_json for stdout that is no JSON; engine_nonzero_exit for
\* a non-zero exit whose response reports ok true and has no error field;
\* otherwise the parsed response unchanged.
C19_Classified ==
    eng_pc \in {"returned", "raised"} =>
        LET rc == eng_proc.returncode
            out == eng_proc.stdout
        IN  /\ eng_pc = "returned"
            /\ CASE rc # 0 /\ StripIsEmpty(out) ->
                      /\ eng_result.ok = "false"
                      /\ eng_result.error = "engine_failed"
                 [] ~(rc # 0 /\ StripIsEmpty(out)) /\ ~WellFormed(out) ->
                      /\ eng_result.ok = "false"
                      /\ eng_result.error = "engine_invalid_json"
                 [] WellFormed(out) /\ rc # 0 /\ ReportsOkTrue(out)
                       /\ "error" \notin DOMAIN out.payload ->
                      /\ eng_result.ok = "false"
                      /\ eng_result.error = "engine_nonzero_exit"
                 [] OTHER -> eng_result = JsonLoads(out)

-----------------------------------------------------------------------------
(* Success and the exit status *)

Success == pc = "done" /\ verdict.ok = TRUE

\* The first build exited 0 and nothing was applied.
BuildWasOk ==
    /\ Ran(build) /\ build.code = 0
    /\ calls = <<"build">>
    /\ edits = <<>> /\ apply_res = None /\ build2 = None

\* The first build failed, a non-empty list of dependencies was inserted,
\* the apply call reported ok and the second build exited 0.
FixedByInsertion ==
    /\ Ran(build) /\ build.code # 0
    /\ needed_headers # <<>>
    /\ edits # <<>>
    /\ \A i \in 1..Len(needed_headers) :
          Contains(edits[1].replacement, IncludeOf(needed_headers[i]))
    /\ Truthy(Get(apply_res, "ok"))
    /\ Ran(build2) /\ build2.code = 0
    /\ calls = CallOrder

\* The first sentence of C20: success only after a last build that exited 0.
SuccessOnlyAfterGoodBuild == Success => BuildWasOk \/ FixedByInsertion

\* C20: a success verdict is returned only when the last build of the run
\* exited 0 (the first build, with nothing applied, or the second, after a
\* non-empty insertion whose apply reported ok); and when the run has ended
\* the exit status of the command line is 0 exactly when the verdict's
\* success flag is set and 2 otherwise.
C20_SuccessAndExitStatus ==
    /\ SuccessOnlyAfterGoodBuild
    /\ pc \in {"done", "raised"} => ExitStatus = (IF Success THEN 0 ELSE 2)

====
